---- MODULE Spec2Model ----
(***************************************************************************)
(* State-machine model of src/server.js: the Express application with the  *)
(* chat endpoint POST /api/claude (validator, cache lookup, local fallback *)
(* generator, enhanced and basic provider calls, error mapping), the       *)
(* statistics, sections and health endpoints, the 404 handler and the      *)
(* process-wide NodeCache with its 3600 second TTL.                        *)
(*                                                                         *)
(* JavaScript strings are sequences of UTF-16 code units (naturals), so    *)
(* that length, toLowerCase, includes, template concatenation and          *)
(* JSON.stringify are computed and not assumed.  Every handler step runs   *)
(* to completion between two awaits, as on the Node.js event loop.         *)
(* The middleware in front of the routes (helmet, cors, rate limiter,      *)
(* body parser) is outside the model.                                      *)
(***************************************************************************)
EXTENDS Integers, Sequences, FiniteSets, TLC

VARIABLES
    cache,   \* NodeCache data: key -> [v: stored value, t: expiry time]
    now,     \* Date.now(), in seconds
    apiKey,  \* whether process.env.ANTHROPIC_API_KEY is set
    h,       \* request handlers: one record per HTTP request, in arrival order
    stored   \* history: key -> [by, at] of the last cache.set of a chat handler

vars == <<cache, now, apiKey, h, stored>>

----------------------------------------------------------------------------
(* Bounds of the model *)

MaxReq == 2        \* requests per behaviour
MaxTicks == 2      \* clock advances per behaviour

(* Program constants *)

TTL == 3600            \* stdTTL of the cache, seconds
MaxMessages == 50      \* messages.length > 50 is rejected
MaxContentLen == 10000 \* message.content.length > 10000 is rejected

----------------------------------------------------------------------------
(* Strings as UTF-16 code units *)

S_user == <<117, 115, 101, 114>>
S_assistant == <<97, 115, 115, 105, 115, 116, 97, 110, 116>>
S_system == <<115, 121, 115, 116, 101, 109>>
S_moderator == <<109, 111, 100, 101, 114, 97, 116, 111, 114>>

\* the keywords of generateFallbackResponse (Cyrillic ones transliterated
\* in the names only)
K_restoran == <<1088, 1077, 1089, 1090, 1086, 1088, 1072, 1085>>
K_kafe == <<1082, 1072, 1092, 1077>>
K_pitanie == <<1087, 1080, 1090, 1072, 1085, 1080, 1077>>
K_restaurant == <<114, 101, 115, 116, 97, 117, 114, 97, 110, 116>>
K_magazin == <<1084, 1072, 1075, 1072, 1079, 1080, 1085>>
K_torgovlya == <<1090, 1086, 1088, 1075, 1086, 1074, 1083, 1103>>
K_prodazha == <<1087, 1088, 1086, 1076, 1072, 1078, 1072>>
K_programmirovanie == <<1087, 1088, 1086, 1075, 1088, 1072, 1084, 1084,
                        1080, 1088, 1086, 1074, 1072, 1085, 1080, 1077>>
K_soft == <<1089, 1086, 1092, 1090>>
K_it == <<105, 116>>

\* cache key prefixes
P_enhanced == <<101, 110, 104, 97, 110, 99, 101, 100, 95,
                99, 108, 97, 117, 100, 101, 95>>            \* enhanced_claude_
P_sections == <<111, 107, 101, 100, 95, 115, 101, 99, 116,
                105, 111, 110, 115>>                        \* oked_sections
P_stats == <<115, 116, 97, 116, 115, 95>>                   \* stats_

\* fragments of the JSON text of a message object
J_role == <<123, 34, 114, 111, 108, 101, 34, 58, 34>>       \* {"role":"
J_content == <<34, 44, 34, 99, 111, 110, 116, 101, 110,
               116, 34, 58, 34>>                            \* ","content":"
J_end == <<34, 125>>                                        \* "}

\* String.prototype.toLowerCase on one code unit: Latin A-Z, Cyrillic
\* U+0410-U+042F (to +32) and U+0400-U+040F (to +80); other units are kept.
LowerUnit(c) ==
    IF c \in 65..90 THEN c + 32
    ELSE IF c \in 1040..1071 THEN c + 32
    ELSE IF c \in 1024..1039 THEN c + 80
    ELSE c

toLowerCase(s) == <<>> \o [i \in 1..Len(s) |-> LowerUnit(s[i])]

\* String.prototype.includes
includes(s, kw) ==
    \E i \in 1..(Len(s) - Len(kw) + 1) : \A j \in 1..Len(kw) : s[i + j - 1] = kw[j]

\* a string of n copies of the code unit c
Repeat(c, n) == <<>> \o [i \in 1..n |-> c]

----------------------------------------------------------------------------
(* JavaScript values of a request body *)

Str(s) == [t |-> "string", s |-> s, n |-> 0]
Num(n) == [t |-> "number", s |-> <<>>, n |-> n]
Undefined == [t |-> "undefined", s |-> <<>>, n |-> 0]

\* the truthiness test of `!x`
Truthy(v) ==
    CASE v.t = "string" -> Len(v.s) > 0
      [] v.t = "number" -> v.n # 0
      [] v.t = "object" -> TRUE
      [] OTHER -> FALSE

\* elements of the messages array
Msg(role, content) == [t |-> "object", role |-> role, content |-> content]
NullMsg == [t |-> "null", role |-> Undefined, content |-> Undefined]

\* the messages field
Arr(items) == [t |-> "array", items |-> items]
NoMessages == [t |-> "undefined", items |-> <<>>]
TextMessages == [t |-> "string", items |-> <<>>]

\* the model field
MStr(v) == [t |-> "string", v |-> v]
MUndef == [t |-> "undefined", v |-> ""]

Body(messages, model) == [messages |-> messages, model |-> model]

DefaultModel == "claude-3-5-sonnet-20241022"
allowedModels ==
    {"claude-3-5-sonnet-20241022", "claude-3-haiku-20240307",
     "claude-3-opus-20240229"}

----------------------------------------------------------------------------
(* The validator of POST /api/claude *)

E_required == "Messages array is required"
E_empty == "Messages array cannot be empty"
E_toomany == "Too many messages in conversation"
E_format == "Invalid message format: role and content required"
E_role == "Invalid message role"
E_notstring == "Message content must be a string"
E_toolong == "Message content too long"
E_model == "Invalid model specified"
E_nouser == "No user message found"

RoleAllowed(role) == role.t = "string" /\ role.s \in {S_user, S_assistant, S_system}

\* the four checks of the loop body on one message: "" when all pass,
\* "TypeError" when reading a property of null throws
CheckMessageMutRoleLast(m) ==
    IF m.t = "null" THEN "TypeError"
    ELSE IF ~Truthy(m.role) \/ ~Truthy(m.content) THEN E_format
    ELSE IF m.content.t # "string" THEN E_notstring
    ELSE IF Len(m.content.s) > MaxContentLen THEN E_toolong
    ELSE IF ~RoleAllowed(m.role) THEN E_role
    ELSE ""

CheckMessageMutOffByOne(m) ==
    IF m.t = "null" THEN "TypeError"
    ELSE IF ~Truthy(m.role) \/ ~Truthy(m.content) THEN E_format
    ELSE IF ~RoleAllowed(m.role) THEN E_role
    ELSE IF m.content.t # "string" THEN E_notstring
    ELSE IF Len(m.content.s) >= MaxContentLen THEN E_toolong
    ELSE ""

CheckMessage(m) ==
    IF m.t = "null" THEN "TypeError"
    ELSE IF ~Truthy(m.role) \/ ~Truthy(m.content) THEN E_format
    ELSE IF ~RoleAllowed(m.role) THEN E_role
    ELSE IF m.content.t # "string" THEN E_notstring
    ELSE IF Len(m.content.s) > MaxContentLen THEN E_toolong
    ELSE ""

\* for (const message of messages) { ... }: the first message that fails
\* decides, later messages are not looked at
ValidateLoopMutByCondition(items, k) ==
    LET E == {CheckMessage(items[j]) : j \in k..Len(items)}
    IN IF "TypeError" \in E THEN "TypeError"
       ELSE IF E_format \in E THEN E_format
       ELSE IF E_role \in E THEN E_role
       ELSE IF E_notstring \in E THEN E_notstring
       ELSE IF E_toolong \in E THEN E_toolong
       ELSE ""

RECURSIVE ValidateLoop(_, _)
ValidateLoop(items, k) ==
    IF k > Len(items) THEN ""
    ELSE LET e == CheckMessage(items[k])
         IN IF e # "" THEN e ELSE ValidateLoop(items, k + 1)

\* the length checks
CheckLengthMutNoUpper(items) ==
    IF Len(items) = 0 THEN E_empty ELSE ""

CheckLength(items) ==
    IF Len(items) = 0 THEN E_empty
    ELSE IF Len(items) > MaxMessages THEN E_toomany
    ELSE ""

ModelOf(body) == IF body.model.t = "undefined" THEN DefaultModel ELSE body.model.v

ModelAllowed(body) == body.model.t \in {"undefined", "string"} /\ ModelOf(body) \in allowedModels

\* messages.find(m => m.role === 'user'): the index, 0 when there is none
FirstUserMutLast(items) ==
    LET U == {k \in 1..Len(items) : items[k].role = Str(S_user)}
    IN IF U = {} THEN 0 ELSE CHOOSE k \in U : \A j \in U : k >= j

FirstUserMutDefaultFirst(items) ==
    LET U == {k \in 1..Len(items) : items[k].role = Str(S_user)}
    IN IF U = {} THEN 1 ELSE CHOOSE k \in U : \A j \in U : k <= j

FirstUser(items) ==
    LET U == {k \in 1..Len(items) : items[k].role = Str(S_user)}
    IN IF U = {} THEN 0 ELSE CHOOSE k \in U : \A j \in U : k <= j

\* the checks in front of the cache lookup: "" when the request goes on,
\* "TypeError" when the loop throws, else the message of the 400 response
Validate(body) ==
    IF body.messages.t # "array" THEN E_required
    ELSE LET items == body.messages.items
             el == CheckLength(items)
             em == ValidateLoop(items, 1)
         IN IF el # "" THEN el
            ELSE IF em # "" THEN em
            ELSE IF ~ModelAllowed(body) THEN E_model
            ELSE IF FirstUser(items) = 0 THEN E_nouser
            ELSE ""

----------------------------------------------------------------------------
(* JSON.stringify of a validated message list, and the cache keys *)

\* a string's characters inside a JSON string literal: the quote and the
\* backslash are escaped
EscapeUnit(c) == IF c = 34 \/ c = 92 THEN <<92, c>> ELSE <<c>>

RECURSIVE EscapeRange(_, _, _)
EscapeRange(s, lo, hi) ==
    IF lo > hi THEN <<>>
    ELSE IF lo = hi THEN EscapeUnit(s[lo])
    ELSE LET mid == (lo + hi) \div 2
         IN EscapeRange(s, lo, mid) \o EscapeRange(s, mid + 1, hi)

Escape(s) ==
    IF \A k \in 1..Len(s) : s[k] # 34 /\ s[k] # 92 THEN s
    ELSE EscapeRange(s, 1, Len(s))

StringifyMessage(m) ==
    J_role \o Escape(m.role.s) \o J_content \o Escape(m.content.s) \o J_end

RECURSIVE StringifyItems(_, _)
StringifyItems(items, k) ==
    IF k > Len(items) THEN <<>>
    ELSE (IF k > 1 THEN <<44>> ELSE <<>>)
         \o StringifyMessage(items[k]) \o StringifyItems(items, k + 1)

\* JSON.stringify(messages)
Stringify(items) == <<91>> \o StringifyItems(items, 1) \o <<93>>

\* `enhanced_claude_${JSON.stringify(messages)}`: the model is not part of it
CacheKeyMutWithModel(body) ==
    P_enhanced \o Stringify(body.messages.items)
        \o (IF ModelOf(body) = DefaultModel THEN <<>> ELSE <<109>>)

CacheKey(body) == P_enhanced \o Stringify(body.messages.items)

StatsKey(okedCode) == P_stats \o okedCode

----------------------------------------------------------------------------
(* NodeCache({ stdTTL: 3600 }) *)

\* _check: an entry is expired once its expiry time lies before now
ExpiredMutInclusive(c, key, t) == key \in DOMAIN c /\ c[key].t <= t

Expired(c, key, t) == key \in DOMAIN c /\ c[key].t < t

Remove(c, keys) == [k \in (DOMAIN c) \ keys |-> c[k]]

\* get(key): the value, when the key is held and not expired
CacheGet(c, key, t) ==
    IF key \in DOMAIN c /\ ~Expired(c, key, t)
    THEN [hit |-> TRUE, v |-> c[key].v]
    ELSE [hit |-> FALSE, v |-> <<>>]

\* get(key) deletes the key when it finds it expired
CacheAfterGet(c, key, t) == IF Expired(c, key, t) THEN Remove(c, {key}) ELSE c

CacheSetMutKeepExpiry(c, key, v, t) ==
    [k \in (DOMAIN c) \cup {key} |->
        IF k = key
        THEN [v |-> v, t |-> IF key \in DOMAIN c THEN c[key].t ELSE t + TTL]
        ELSE c[k]]

CacheSetMutFirstWins(c, key, v, t) ==
    [k \in (DOMAIN c) \cup {key} |->
        IF k = key /\ key \notin DOMAIN c THEN [v |-> v, t |-> t + TTL] ELSE c[k]]

\* set(key, value): stored with the standard TTL, measured from now
CacheSet(c, key, v, t) ==
    [k \in (DOMAIN c) \cup {key} |->
        IF k = key THEN [v |-> v, t |-> t + TTL] ELSE c[k]]

\* the periodic check deletes every expired key
CacheCheckData(c, t) == Remove(c, {k \in DOMAIN c : Expired(c, k, t)})

CacheKeyCountMutNoSections(c) == Cardinality(DOMAIN c \ {P_sections})

\* keys().length
CacheKeyCount(c) == Cardinality(DOMAIN c)

----------------------------------------------------------------------------
(* generateFallbackResponse: the keyword classification *)

IsFood(q) ==
    includes(q, K_restoran) \/ includes(q, K_kafe)
    \/ includes(q, K_pitanie) \/ includes(q, K_restaurant)

IsRetail(q) ==
    includes(q, K_magazin) \/ includes(q, K_torgovlya) \/ includes(q, K_prodazha)

IsSoftware(q) ==
    includes(q, K_programmirovanie) \/ includes(q, K_soft) \/ includes(q, K_it)

FallbackCategoryMutRetailFirst(userQuery) ==
    LET queryLower == toLowerCase(userQuery)
    IN IF IsRetail(queryLower) THEN "retail"
       ELSE IF IsFood(queryLower) THEN "food"
       ELSE IF IsSoftware(queryLower) THEN "software"
       ELSE "offline"

FallbackCategory(userQuery) ==
    LET queryLower == toLowerCase(userQuery)
    IN IF IsFood(queryLower) THEN "food"
       ELSE IF IsRetail(queryLower) THEN "retail"
       ELSE IF IsSoftware(queryLower) THEN "software"
       ELSE "offline"

FallbackCodes(category) ==
    CASE category = "food" -> <<"56100">>
      [] category = "retail" -> <<"47111">>
      [] category = "software" -> <<"62010">>
      [] OTHER -> <<>>

FallbackSuggestions(category) ==
    CASE category = "food" -> 2
      [] category = "retail" -> 2
      [] OTHER -> 3

\* the result object; content stands for the JSON text of the inner object
\* (response is the category's template with the query spliced in), which
\* the server never reads back
generateFallbackResponse(userQuery) ==
    LET category == FallbackCategory(userQuery)
    IN [content |-> [response |-> <<category, userQuery>>,
                     codes |-> FallbackCodes(category),
                     suggestions |-> FallbackSuggestions(category),
                     confidence |-> "low",
                     fallback |-> TRUE],
        fallback |-> TRUE,
        enhanced |-> FALSE]

----------------------------------------------------------------------------
(* The provider and the results built from its answers *)

\* what anthropic.messages.create can settle with: a completion, a
\* completion with no content block, or a rejection with an HTTP status
Texts == {"t1", "t2"}
Ok(text) == [kind |-> "ok", text |-> text, status |-> 0]
Empty == [kind |-> "empty", text |-> "", status |-> 0]
Rejected(status) == [kind |-> "error", text |-> "", status |-> status]
FailStatuses == {429, 400, 503}
Failures == {Empty} \cup {Rejected(s) : s \in FailStatuses}
CoreFailures == {Rejected(429)}

\* the error object a failed attempt leaves: error.status, 0 when the
\* error has none (the TypeError of response.content[0].text)
ErrorOf(o) == [status |-> o.status]
NoError == [status |-> -1]

BasicResultMutEnhanced(text) ==
    [content |-> text, usage |-> "usage", enhanced |-> TRUE,
     queryType |-> "fallback"]

EnhancedResult(text, userContent) ==
    [content |-> text, usage |-> "usage", enhanced |-> TRUE,
     queryType |-> "claude_intelligence", originalQuery |-> userContent]

BasicResult(text) ==
    [content |-> text, usage |-> "usage", enhanced |-> FALSE,
     queryType |-> "fallback"]

\* the top-level catch block
ErrorResponse(error) ==
    IF error.status = 429
    THEN [status |-> 429, payload |-> [error |-> "Rate limit exceeded. Please try again later."]]
    ELSE IF error.status = 400
    THEN [status |-> 400, payload |-> [error |-> "Invalid request format"]]
    ELSE [status |-> 500, payload |-> [error |-> "Internal server error"]]

----------------------------------------------------------------------------
(* Request handlers *)

Handlers == 1..MaxReq

ChatReq(body) == [endpoint |-> "chat", body |-> body, okedCode |-> <<>>]
StatsReq(okedCode) ==
    [endpoint |-> "statistics", body |-> Body(NoMessages, MUndef), okedCode |-> okedCode]
PlainReq(endpoint) ==
    [endpoint |-> endpoint, body |-> Body(NoMessages, MUndef), okedCode |-> <<>>]

\* a handler that has not received its request yet
Idle ==
    [pc |-> "idle", req |-> PlainReq(""),
     sent |-> 0, status |-> 0, payload |-> <<>>, path |-> "",
     calls |-> 0, inv |-> <<>>, sets |-> 0, err1 |-> NoError, err2 |-> NoError,
     saw |-> [by |-> 0, fresh |-> FALSE]]

\* requests are numbered in arrival order
Arrives(i) ==
    /\ h[i].pc = "idle"
    /\ \A j \in Handlers : j < i => h[j].pc # "idle"

\* res.status(status).json(payload): one more response sent; the first
\* one sent is the one the client gets
Send(r, status, payload, path) ==
    [r EXCEPT !.sent = @ + 1,
              !.status = IF r.sent = 0 THEN status ELSE @,
              !.payload = IF r.sent = 0 THEN payload ELSE @,
              !.path = IF r.sent = 0 THEN path ELSE @,
              !.pc = "done"]

UserContent(body) ==
    LET items == body.messages.items IN items[FirstUser(items)].content.s

\* the template literal enhancedPrompt: the fixed context (of which the
\* model keeps the text next to the query) with the content of the first
\* user-role message spliced in between quotes
\* USER QUERY: "
P_query == <<85, 83, 69, 82, 32, 81, 85, 69, 82, 89, 58, 32, 34>>
\* "(two line feeds)INSTRUCTIONS:
P_instructions ==
    <<34, 10, 10, 73, 78, 83, 84, 82, 85, 67, 84, 73, 79, 78, 83, 58>>

enhancedPrompt(body) == P_query \o UserContent(body) \o P_instructions

\* the arguments of the two calls of anthropic.messages.create
EnhancedCall(body) ==
    [model |-> ModelOf(body),
     messages |-> <<Msg(Str(S_user), Str(enhancedPrompt(body)))>>]

BasicCallMutFirstUser(body) ==
    [model |-> ModelOf(body),
     messages |-> <<body.messages.items[FirstUser(body.messages.items)]>>]

BasicCall(body) ==
    [model |-> ModelOf(body), messages |-> body.messages.items]

\* the last chat write under a key, as the history has it, and whether it
\* lies within the TTL window at this moment
Seen(key) ==
    IF key \in DOMAIN stored
    THEN [by |-> stored[key].by, fresh |-> now <= stored[key].at + TTL]
    ELSE [by |-> 0, fresh |-> FALSE]

Record(key, i) ==
    [k \in (DOMAIN stored) \cup {key} |->
        IF k = key THEN [by |-> i, at |-> now] ELSE stored[k]]

\* return res.status(400).json({ error }): the handler ends here
InvalidReplyMutNoReturn(r, error) ==
    Send(Send(r, 400, [error |-> error], "invalid"),
         500, [error |-> "Internal server error"], "throw")

InvalidReply(r, error) == Send(r, 400, [error |-> error], "invalid")

\* the handler from the arrival of the request to its first await or to
\* its response: validation, cache lookup, credential check
ChatRequest(i, body) ==
    /\ Arrives(i)
    /\ LET r0 == [h[i] EXCEPT !.req = ChatReq(body)]
           v == Validate(body)
           key == CacheKey(body)
           cached == CacheGet(cache, key, now)
           looked == CacheAfterGet(cache, key, now)
           r1 == [r0 EXCEPT !.saw = Seen(key)]
           result == generateFallbackResponse(UserContent(body))
           thrown == ErrorResponse([status |-> 0])
       IN IF v = "TypeError"
          THEN /\ h' = [h EXCEPT ![i] = Send(r0, thrown.status, thrown.payload, "throw")]
               /\ UNCHANGED <<cache, stored>>
          ELSE IF v # ""
          THEN /\ h' = [h EXCEPT ![i] = InvalidReply(r0, v)]
               /\ UNCHANGED <<cache, stored>>
          ELSE IF cached.hit
          THEN /\ h' = [h EXCEPT ![i] = Send(r1, 200, cached.v, "hit")]
               /\ cache' = looked
               /\ UNCHANGED stored
          ELSE IF ~apiKey
          THEN /\ h' = [h EXCEPT ![i] =
                          Send([r1 EXCEPT !.sets = @ + 1], 200, result, "fallback")]
               /\ cache' = CacheSet(looked, key, result, now)
               /\ stored' = Record(key, i)
          ELSE /\ h' = [h EXCEPT ![i] =
                          [r1 EXCEPT !.pc = "await_enhanced", !.calls = @ + 1,
                                     !.inv = Append(@, EnhancedCall(body))]]
               /\ cache' = looked
               /\ UNCHANGED stored
    /\ UNCHANGED <<now, apiKey>>

\* the enhanced call resolves with a completion: wrap, cache, answer
EnhancedResolve(i, text) ==
    /\ h[i].pc = "await_enhanced"
    /\ LET key == CacheKey(h[i].req.body)
           result == EnhancedResult(text, UserContent(h[i].req.body))
       IN /\ cache' = CacheSet(cache, key, result, now)
          /\ stored' = Record(key, i)
          /\ h' = [h EXCEPT ![i] =
                     Send([h[i] EXCEPT !.sets = @ + 1], 200, result, "enhanced")]
    /\ UNCHANGED <<now, apiKey>>

\* the enhanced attempt throws (a rejection, or a completion with no
\* content block): the catch block issues the basic call
EnhancedReject(i, o) ==
    /\ h[i].pc = "await_enhanced"
    /\ h' = [h EXCEPT ![i] =
               [h[i] EXCEPT !.pc = "await_basic", !.calls = @ + 1,
                            !.inv = Append(@, BasicCall(h[i].req.body)),
                            !.err1 = ErrorOf(o)]]
    /\ UNCHANGED <<cache, stored, now, apiKey>>

\* the basic call resolves with a completion: wrap, cache, answer
\* (enhancedError goes out of scope)
BasicResolve(i, text) ==
    /\ h[i].pc = "await_basic"
    /\ LET key == CacheKey(h[i].req.body)
           result == BasicResult(text)
       IN /\ cache' = CacheSet(cache, key, result, now)
          /\ stored' = Record(key, i)
          /\ h' = [h EXCEPT ![i] =
                     Send([h[i] EXCEPT !.sets = @ + 1, !.err1 = NoError],
                          200, result, "basic")]
    /\ UNCHANGED <<now, apiKey>>

\* the error the handler throws on after both attempts failed
PropagatedMutFirst(enhancedError, fallbackError) == enhancedError

Propagated(enhancedError, fallbackError) == fallbackError

BasicRejectMutSwallow(i, o) ==
    /\ h[i].pc = "await_basic"
    /\ h' = [h EXCEPT ![i] = [h[i] EXCEPT !.pc = "caught", !.err2 = ErrorOf(o)]]
    /\ UNCHANGED <<cache, stored, now, apiKey>>

\* the basic attempt throws too: rethrown to the top-level catch block
BasicReject(i, o) ==
    /\ h[i].pc = "await_basic"
    /\ LET r == [h[i] EXCEPT !.err2 = ErrorOf(o)]
           e == ErrorResponse(Propagated(h[i].err1, ErrorOf(o)))
       IN h' = [h EXCEPT ![i] = Send(r, e.status, e.payload, "error")]
    /\ UNCHANGED <<cache, stored, now, apiKey>>

----------------------------------------------------------------------------
(* The synchronous endpoints *)

CodeFormatOkMutSixDigits(okedCode) ==
    \/ Len(okedCode) = 1 /\ okedCode[1] \in 65..85
    \/ Len(okedCode) \in 1..6 /\ \A k \in 1..Len(okedCode) : okedCode[k] \in 48..57

\* /^[A-U]$|^\d{1,5}$/
CodeFormatOk(okedCode) ==
    \/ Len(okedCode) = 1 /\ okedCode[1] \in 65..85
    \/ Len(okedCode) \in 1..5 /\ \A k \in 1..Len(okedCode) : okedCode[k] \in 48..57

E_stub == "Real statistics integration in progress. See https://github.com/kazdatahelp/oked-catalogue-assistant/issues/6"

\* GET /api/statistics/:okedCode
Statistics(i, okedCode) ==
    /\ Arrives(i)
    /\ LET r0 == [h[i] EXCEPT !.req = StatsReq(okedCode)]
           key == StatsKey(okedCode)
           cached == CacheGet(cache, key, now)
       IN IF Len(okedCode) = 0
          THEN /\ h' = [h EXCEPT ![i] = Send(r0, 400, [error |-> "OKED code is required"], "invalid")]
               /\ UNCHANGED cache
          ELSE IF ~CodeFormatOk(okedCode)
          THEN /\ h' = [h EXCEPT ![i] = Send(r0, 400, [error |-> "Invalid OKED code format"], "invalid")]
               /\ UNCHANGED cache
          ELSE IF cached.hit
          THEN /\ h' = [h EXCEPT ![i] = Send(r0, 200, cached.v, "hit")]
               /\ cache' = CacheAfterGet(cache, key, now)
          ELSE /\ h' = [h EXCEPT ![i] = Send(r0, 501, [error |-> E_stub], "stub")]
               /\ cache' = CacheAfterGet(cache, key, now)
    /\ UNCHANGED <<now, apiKey, stored>>

\* the mock table of OKED sections
sections ==
    << [code |-> "A", name |-> "Agriculture, forestry and fishing",
        description |-> "Section A - Agriculture"],
       [code |-> "B", name |-> "Mining and quarrying",
        description |-> "Section B - Mining"],
       [code |-> "C", name |-> "Manufacturing",
        description |-> "Section C - Manufacturing"],
       [code |-> "F", name |-> "Construction",
        description |-> "Section F - Construction"],
       [code |-> "G", name |-> "Wholesale and retail trade",
        description |-> "Section G - Trade"],
       [code |-> "I", name |-> "Accommodation and food service activities",
        description |-> "Section I - Hospitality"],
       [code |-> "J", name |-> "Information and communication",
        description |-> "Section J - IT & Communications"],
       [code |-> "M", name |-> "Professional, scientific and technical activities",
        description |-> "Section M - Professional Services"] >>

SectionsHitMutCachedFlag(cached) == [cached.v EXCEPT !.cached = TRUE]

\* what the sections endpoint answers on a cache hit
SectionsHit(cached) == cached.v

\* GET /api/oked/sections
Sections(i) ==
    /\ Arrives(i)
    /\ LET r0 == [h[i] EXCEPT !.req = PlainReq("sections")]
           cached == CacheGet(cache, P_sections, now)
           looked == CacheAfterGet(cache, P_sections, now)
           result == [data |-> sections, cached |-> FALSE]
       IN IF cached.hit
          THEN /\ h' = [h EXCEPT ![i] = Send(r0, 200, SectionsHit(cached), "hit")]
               /\ cache' = looked
          ELSE /\ h' = [h EXCEPT ![i] =
                          Send([r0 EXCEPT !.sets = @ + 1], 200, result, "fresh")]
               /\ cache' = CacheSet(looked, P_sections, result, now)
    /\ UNCHANGED <<now, apiKey, stored>>

\* GET /health (the clock-derived fields timestamp and uptime and the
\* environment name are left out of the payload)
Health(i) ==
    /\ Arrives(i)
    /\ h' = [h EXCEPT ![i] =
               Send([h[i] EXCEPT !.req = PlainReq("health")], 200,
                    [status |-> "OK",
                     message |-> "OKED Catalogue Backend is running",
                     cache_keys |-> CacheKeyCount(cache),
                     anthropic_configured |-> apiKey], "health")]
    /\ UNCHANGED <<cache, now, apiKey, stored>>

\* the 404 handler of every unmatched route
NotFound(i) ==
    /\ Arrives(i)
    /\ h' = [h EXCEPT ![i] =
               Send([h[i] EXCEPT !.req = PlainReq("unmatched")], 404,
                    [error |-> "Endpoint not found"], "unmatched")]
    /\ UNCHANGED <<cache, now, apiKey, stored>>

----------------------------------------------------------------------------
(* Time *)

\* the clock advances by a whole TTL at a time: an entry is looked up at
\* the moment it is stored, at the last moment it is held, or expired
TickStep == TTL

Ticks == now \div TickStep

Tick ==
    /\ Ticks < MaxTicks
    /\ now' = now + TickStep
    /\ UNCHANGED <<cache, apiKey, h, stored>>

\* the clock advances by a second or by a second less than the TTL: an
\* entry is looked up a second after it was stored, a second before its
\* TTL has passed, at that moment and a second after it
FineSteps == {1, TTL - 1}

FineTicks == (now \div (TTL - 1)) + (now % (TTL - 1))

Elapse(d) ==
    /\ FineTicks < MaxTicks + 1
    /\ now' = now + d
    /\ UNCHANGED <<cache, apiKey, h, stored>>

\* the cache's periodic check runs and finds expired keys
CheckData ==
    /\ \E k \in DOMAIN cache : Expired(cache, k, now)
    /\ cache' = CacheCheckData(cache, now)
    /\ UNCHANGED <<now, apiKey, h, stored>>

----------------------------------------------------------------------------
(* Request bodies *)

T_IT == <<73, 84>>       \* IT

UserFood == Msg(Str(S_user), Str(K_restoran))

\* the requests of the concurrent specification: two with the same
\* messages and different models, one with the keyword in a system
\* message, one that fails the model check, one whose message is null
CoreBodies ==
    { Body(Arr(<<UserFood>>), MUndef),
      Body(Arr(<<UserFood>>), MStr("claude-3-haiku-20240307")),
      Body(Arr(<<Msg(Str(S_system), Str(K_restoran)), Msg(Str(S_user), Str(T_IT))>>), MUndef),
      Body(Arr(<<UserFood>>), MStr("gpt-4")),
      Body(Arr(<<NullMsg>>), MUndef) }

Codes == { <<65>>, <<90, 90>> }   \* A, ZZ

\* the requests of the validator's specification: every list of at most
\* two short messages, lists with a message at the content bound, lists
\* at the message-count bound, and bodies with no list
ShortRoles == {Str(S_user), Str(S_system), Str(S_moderator), Undefined}
ShortContents == {Str(K_restoran), Str(T_IT), Str(<<>>), Num(5)}
ShortMsgs == {Msg(r, c) : r \in ShortRoles, c \in ShortContents} \cup {NullMsg}
ShortLists == {<<>>} \cup {<<m>> : m \in ShortMsgs}
                     \cup {<<m1, m2>> : m1 \in ShortMsgs, m2 \in ShortMsgs}
Models == {MUndef, MStr("claude-3-opus-20240229"), MStr("gpt-4")}

AtBound == Msg(Str(S_user), Str(Repeat(97, MaxContentLen)))
OverBound ==
    { Msg(Str(S_user), Str(Repeat(97, MaxContentLen + 1))),
      Msg(Str(S_moderator), Str(Repeat(97, MaxContentLen + 1))) }
Partners == {UserFood, Msg(Str(S_moderator), Str(T_IT)), Msg(Str(S_user), Num(5))}
LongLists ==
    {<<m>> : m \in OverBound \cup {AtBound}}
        \cup {<<m, e>> : m \in OverBound, e \in Partners}
        \cup {<<e, m>> : m \in OverBound, e \in Partners}
        \cup {<<AtBound, e>> : e \in Partners \ {UserFood}}

\* n messages, all valid but for the one at position k (none when k = 0)
Many(n, k, odd) == <<>> \o [j \in 1..n |-> IF j = k THEN odd ELSE UserFood]
ManyLists ==
    {Many(n, k, odd) : n \in {MaxMessages, MaxMessages + 1},
                       k \in {0, 1, MaxMessages},
                       odd \in {NullMsg, Msg(Str(S_moderator), Str(<<>>))}}

\* the texts of the fallback generator: every keyword, a keyword in
\* capitals, texts that hold keywords of two categories, a keyword inside
\* a word, and a text with none
T_RESTORAN == <<1056, 1045, 1057, 1058, 1054, 1056, 1040, 1053>>
T_city == <<99, 105, 116, 121>>
T_hello == <<104, 101, 108, 108, 111>>
QueryTexts ==
    { K_restoran, K_kafe, K_pitanie, K_restaurant, K_magazin, K_torgovlya,
      K_prodazha, K_programmirovanie, K_soft, K_it,
      T_RESTORAN, T_city, T_hello,
      K_magazin \o <<32>> \o K_kafe,
      K_it \o <<32>> \o K_prodazha,
      K_soft \o <<32>> \o K_restaurant }
QueryLists == {<<Msg(Str(S_user), Str(q))>> : q \in QueryTexts}

\* well-formed lists with assistant and system messages only
NoUserLists ==
    { <<Msg(Str(S_assistant), Str(K_restoran))>>,
      <<Msg(Str(S_assistant), Str(T_IT)), Msg(Str(S_system), Str(K_restoran))>>,
      <<Msg(Str(S_system), Str(T_IT)), Msg(Str(S_assistant), Str(T_IT))>> }

WideBodies ==
    {Body(Arr(l), m) : l \in ShortLists, m \in Models}
    \cup {Body(Arr(l), MUndef) : l \in QueryLists}
    \cup {Body(Arr(l), m) : l \in NoUserLists, m \in Models}
    \cup {Body(Arr(l), m) : l \in LongLists \cup ManyLists, m \in {MUndef, MStr("gpt-4")}}
    \cup {Body(ms, m) : ms \in {NoMessages, TextMessages}, m \in Models}

----------------------------------------------------------------------------
(* The specification of the server under concurrent requests *)

Init ==
    /\ cache = <<>>
    /\ now = 0
    /\ apiKey \in BOOLEAN
    /\ h = [i \in Handlers |-> Idle]
    /\ stored = <<>>

Next ==
    \/ \E i \in Handlers, body \in CoreBodies : ChatRequest(i, body)
    \/ \E i \in Handlers, text \in Texts : EnhancedResolve(i, text)
    \/ \E i \in Handlers, o \in CoreFailures : EnhancedReject(i, o)
    \/ \E i \in Handlers, text \in Texts : BasicResolve(i, text)
    \/ \E i \in Handlers, o \in CoreFailures : BasicReject(i, o)
    \/ \E i \in Handlers, okedCode \in Codes : Statistics(i, okedCode)
    \/ \E i \in Handlers : Sections(i)
    \/ \E i \in Handlers : Health(i)
    \/ \E i \in Handlers : NotFound(i)
    \/ Tick
    \/ CheckData

Spec == Init /\ [][Next]_vars

(* The specification of one chat request drawn from the wide set of      *)
(* bodies, with every provider outcome, among sections requests          *)

NoOtherChat(i) == \A j \in Handlers \ {i} : h[j].req.endpoint # "chat"

NextV ==
    \/ \E i \in Handlers, body \in WideBodies : NoOtherChat(i) /\ ChatRequest(i, body)
    \/ \E i \in Handlers, text \in Texts : EnhancedResolve(i, text)
    \/ \E i \in Handlers, o \in Failures : EnhancedReject(i, o)
    \/ \E i \in Handlers, text \in Texts : BasicResolve(i, text)
    \/ \E i \in Handlers, o \in Failures : BasicReject(i, o)
    \/ \E i \in Handlers : Sections(i)

SpecV == Init /\ [][NextV]_vars

(* The specification of repeated chat requests with the same messages,   *)
(* with every provider outcome, as time passes                           *)

SameBodies == {Body(Arr(<<UserFood>>), MUndef)}

NextE ==
    \/ \E i \in Handlers, body \in SameBodies : ChatRequest(i, body)
    \/ \E i \in Handlers, text \in Texts : EnhancedResolve(i, text)
    \/ \E i \in Handlers, o \in Failures : EnhancedReject(i, o)
    \/ \E i \in Handlers, text \in Texts : BasicResolve(i, text)
    \/ \E i \in Handlers, o \in Failures : BasicReject(i, o)
    \/ Tick
    \/ CheckData

SpecE == Init /\ [][NextE]_vars

(* The specification of statistics requests with codes of every shape,   *)
(* among chat and sections requests, as time passes                      *)

\* A, U, V, a, ZZ, 0, 12345, 123456, 1a, A1, 1 followed by a line feed
WideCodes ==
    { <<65>>, <<85>>, <<86>>, <<97>>, <<90, 90>>, <<48>>,
      <<49, 50, 51, 52, 53>>, <<49, 50, 51, 52, 53, 54>>,
      <<49, 97>>, <<65, 49>>, <<49, 10>> }

NextS ==
    \/ \E i \in Handlers, okedCode \in WideCodes : Statistics(i, okedCode)
    \/ \E i \in Handlers, body \in SameBodies : ChatRequest(i, body)
    \/ \E i \in Handlers, text \in Texts : EnhancedResolve(i, text)
    \/ \E i \in Handlers, o \in CoreFailures : EnhancedReject(i, o)
    \/ \E i \in Handlers, text \in Texts : BasicResolve(i, text)
    \/ \E i \in Handlers, o \in CoreFailures : BasicReject(i, o)
    \/ \E i \in Handlers : Sections(i)
    \/ Tick
    \/ CheckData

SpecS == Init /\ [][NextS]_vars

(* The specification of chat requests that agree or differ in their     *)
(* messages and in their model, with a content that holds JSON syntax    *)

T_x == <<120>>      \* x
T_y == <<121>>      \* y
\* x"},{"role":"user","content":"y
T_xy ==
    T_x \o <<34, 125, 44, 123, 34, 114, 111, 108, 101, 34, 58, 34>> \o S_user
        \o <<34, 44, 34, 99, 111, 110, 116, 101, 110, 116, 34, 58, 34>> \o T_y

KeyBodies ==
    { Body(Arr(<<UserFood>>), MUndef),
      Body(Arr(<<UserFood>>), MStr("claude-3-haiku-20240307")),
      Body(Arr(<<Msg(Str(S_user), Str(T_x)), Msg(Str(S_user), Str(T_y))>>), MUndef),
      Body(Arr(<<Msg(Str(S_user), Str(T_xy))>>), MUndef) }

NextK ==
    \/ \E i \in Handlers, body \in KeyBodies : ChatRequest(i, body)
    \/ \E i \in Handlers, text \in Texts : EnhancedResolve(i, text)
    \/ \E i \in Handlers, o \in CoreFailures : EnhancedReject(i, o)
    \/ \E i \in Handlers, text \in Texts : BasicResolve(i, text)
    \/ \E i \in Handlers, o \in CoreFailures : BasicReject(i, o)

SpecK == Init /\ [][NextK]_vars

(* The specification of repeated chat and sections requests under a     *)
(* clock that steps around the moment of expiry                          *)

NextT ==
    \/ \E i \in Handlers, body \in SameBodies : ChatRequest(i, body)
    \/ \E i \in Handlers, text \in Texts : EnhancedResolve(i, text)
    \/ \E i \in Handlers, o \in CoreFailures : EnhancedReject(i, o)
    \/ \E i \in Handlers, text \in Texts : BasicResolve(i, text)
    \/ \E i \in Handlers, o \in CoreFailures : BasicReject(i, o)
    \/ \E i \in Handlers : Sections(i)
    \/ \E d \in FineSteps : Elapse(d)
    \/ CheckData

SpecT == Init /\ [][NextT]_vars

(* The specification of the endpoints under the assumption that every   *)
(* provider call is settled: the promise of an awaited call resolves or  *)
(* rejects, and the event loop then runs the continuation                *)

Settle(i) ==
    \/ \E text \in Texts : EnhancedResolve(i, text)
    \/ \E o \in CoreFailures : EnhancedReject(i, o)
    \/ \E text \in Texts : BasicResolve(i, text)
    \/ \E o \in CoreFailures : BasicReject(i, o)

NextL ==
    \/ \E i \in Handlers, body \in SameBodies : ChatRequest(i, body)
    \/ \E i \in Handlers : Settle(i)
    \/ \E i \in Handlers, okedCode \in Codes : Statistics(i, okedCode)
    \/ \E i \in Handlers : Sections(i)
    \/ \E i \in Handlers : Health(i)

SpecL == Init /\ [][NextL]_vars /\ \A i \in Handlers : WF_vars(Settle(i))

----------------------------------------------------------------------------
(* The conditions of the validator, as the specification lists them *)

ChatDone(i) == h[i].pc = "done" /\ h[i].req.endpoint = "chat"
BodyOf(i) == h[i].req.body
Items(i) == h[i].req.body.messages.items
IsList(i) == h[i].req.body.messages.t = "array"
Answered(i, status, error) == h[i].status = status /\ h[i].payload = [error |-> error]

\* conditions 3 to 6 on one message
Holds(c, m) ==
    CASE c = 3 -> Truthy(m.role) /\ Truthy(m.content)
      [] c = 4 -> RoleAllowed(m.role)
      [] c = 5 -> m.content.t = "string"
      [] c = 6 -> Len(m.content.s) <= MaxContentLen

CondText(c) ==
    CASE c = 3 -> E_format
      [] c = 4 -> E_role
      [] c = 5 -> E_notstring
      [] c = 6 -> E_toolong

Passes(m) == \A c \in 3..6 : Holds(c, m)

Least(S) == CHOOSE c \in S : \A d \in S : c <= d

\* the first message of the list that fails a condition, 0 when none does
FirstBad(items) ==
    LET B == {k \in 1..Len(items) : ~Passes(items[k])}
    IN IF B = {} THEN 0 ELSE Least(B)

\* the first condition a message fails
FirstCond(m) == Least({c \in 3..6 : ~Holds(c, m)})

CountOk(i) == IsList(i) /\ Len(Items(i)) \in 1..MaxMessages
AllObjects(i) == \A k \in 1..Len(Items(i)) : Items(i)[k].t = "object"

\* the request passes conditions 1 to 7 and has a user message
Accepted(i) ==
    /\ CountOk(i)
    /\ \A k \in 1..Len(Items(i)) : Passes(Items(i)[k])
    /\ ModelAllowed(BodyOf(i))
    /\ \E k \in 1..Len(Items(i)) : Items(i)[k].role = Str(S_user)

ValidatorTexts ==
    {E_required, E_empty, E_toomany, E_format, E_role, E_notstring, E_toolong, E_model}

----------------------------------------------------------------------------
(* Properties of the chat endpoint under concurrent requests *)

SameMessages(i, j) == BodyOf(i).messages = BodyOf(j).messages

\* C1, as claimed: of two validated requests with the same messages, the
\* second issued within the TTL window of the first (every state at or
\* before time TTL lies within it), the second is answered with the
\* payload the first cached, and the provider is invoked at most once
\* over the two, whatever the provider outcomes and the interleaving.
C1_AsClaimed ==
    now <= TTL =>
        \A i \in Handlers, j \in Handlers :
            ( /\ i < j
              /\ ChatDone(j) /\ Accepted(j)
              /\ h[i].req.endpoint = "chat" /\ Accepted(i)
              /\ SameMessages(i, j) )
            => /\ h[i].pc = "done" /\ h[i].status = 200
               /\ h[j].status = 200
               /\ h[j].payload = h[i].payload
               /\ h[i].calls + h[j].calls <= 1

\* C1, amended: a validated request that arrives while the most recent
\* result stored under its key by an earlier request with the same
\* messages is within its TTL is answered 200 with exactly that request's
\* payload, and makes no provider call and no cache write; the storing
\* request was answered 200 after at most two provider calls (none on the
\* local fallback, one when the enhanced call succeeded, two when only the
\* basic call did).  A validated request that finds no such result is not
\* answered from the cache.
C1_Idempotent ==
    \A j \in Handlers :
        (h[j].req.endpoint = "chat" /\ h[j].pc # "idle" /\ Accepted(j)) =>
            LET w == h[j].saw.by
            IN IF w # 0 /\ h[j].saw.fresh
               THEN /\ h[j].pc = "done" /\ h[j].path = "hit"
                    /\ h[j].status = 200 /\ h[j].sent = 1
                    /\ h[j].calls = 0 /\ h[j].sets = 0
                    /\ w < j /\ ChatDone(w) /\ SameMessages(w, j)
                    /\ h[w].status = 200
                    /\ h[j].payload = h[w].payload
                    /\ h[w].path \in {"fallback", "enhanced", "basic"}
                    /\ h[w].calls = (CASE h[w].path = "fallback" -> 0
                                       [] h[w].path = "enhanced" -> 1
                                       [] h[w].path = "basic" -> 2)
               ELSE h[j].path # "hit"

C1_Witness ==
    \E i \in Handlers, j \in Handlers :
        /\ ChatDone(i) /\ h[i].path = "basic"
        /\ ChatDone(j) /\ h[j].path = "hit" /\ h[j].saw.by = i
        /\ now = TTL

----------------------------------------------------------------------------
(* Properties of the validator *)

\* the request fails one of the conditions 1 to 7
FailsValidation(i) ==
    \/ ~CountOk(i)
    \/ \E k \in 1..Len(Items(i)) : ~Passes(Items(i)[k])
    \/ ~ModelAllowed(BodyOf(i))

\* C2, as claimed: a request that fails a validation condition is answered
\* 400 and has made no provider call, no cache read and no cache write.
C2_AsClaimed ==
    \A i \in Handlers :
        (ChatDone(i) /\ FailsValidation(i)) =>
            /\ h[i].status = 400
            /\ h[i].calls = 0 /\ h[i].sets = 0 /\ h[i].path # "hit"

\* C2 on the requests whose list holds no null: there the claim holds.
C2_ExceptNull ==
    \A i \in Handlers :
        (ChatDone(i) /\ FailsValidation(i) /\ (IsList(i) => AllObjects(i))) =>
            /\ h[i].status = 400
            /\ h[i].calls = 0 /\ h[i].sets = 0 /\ h[i].path # "hit"

\* C3, as claimed (on lists of message objects): the error is the one of
\* the first failing condition in the order 3, 4, 5, 6, each condition
\* ranging over every message of the request.
C3_AsClaimed ==
    \A i \in Handlers :
        (ChatDone(i) /\ CountOk(i) /\ AllObjects(i)) =>
            LET F == {c \in 3..6 : \E k \in 1..Len(Items(i)) : ~Holds(c, Items(i)[k])}
            IN F # {} => Answered(i, 400, CondText(Least(F)))

\* C3, amended: the 400 error is the one of the first check that fails
\* in the order the handler runs them: condition 1, condition 2, then
\* message by message conditions 3 to 6 on that message, then condition
\* 7; a later message is not looked at once an earlier one fails.  When
\* the first failing message is null its check throws and the answer is
\* the 500 of the top-level handler (the defect of C2).  The model error is
\* returned only when conditions 1 to 6 hold for every message, and a
\* request passing all seven gets none of these errors.
C3_Order ==
    \A i \in Handlers :
        ChatDone(i) =>
            /\ IF ~IsList(i) THEN Answered(i, 400, E_required)
               ELSE IF Len(Items(i)) = 0 THEN Answered(i, 400, E_empty)
               ELSE IF Len(Items(i)) > MaxMessages THEN Answered(i, 400, E_toomany)
               ELSE LET k == FirstBad(Items(i))
                    IN IF k # 0
                       THEN IF Items(i)[k].t = "object"
                            THEN Answered(i, 400, CondText(FirstCond(Items(i)[k])))
                            ELSE Answered(i, 500, "Internal server error")
                       ELSE IF ~ModelAllowed(BodyOf(i)) THEN Answered(i, 400, E_model)
                       ELSE \A e \in ValidatorTexts : h[i].payload # [error |-> e]
            /\ Answered(i, 400, E_model) =>
                   CountOk(i) /\ \A k \in 1..Len(Items(i)) : Passes(Items(i)[k])

C3_Witness ==
    \E i \in Handlers :
        /\ ChatDone(i) /\ CountOk(i) /\ Len(Items(i)) = 2
        /\ ~Holds(4, Items(i)[1]) /\ Holds(3, Items(i)[1])
        /\ ~Holds(3, Items(i)[2])
        /\ ~ModelAllowed(BodyOf(i))
        /\ Answered(i, 400, E_role)

\* C4: an empty list gets 400 "Messages array cannot be empty"; a list of
\* more than 50 messages gets 400 "Too many messages in conversation"
\* whatever the messages are; a list of 1 to 50 messages gets neither.
C4_CountBounds ==
    \A i \in Handlers :
        (ChatDone(i) /\ IsList(i)) =>
            /\ Len(Items(i)) = 0 => Answered(i, 400, E_empty)
            /\ Len(Items(i)) > MaxMessages => Answered(i, 400, E_toomany)
            /\ Len(Items(i)) \in 1..MaxMessages =>
                   /\ h[i].payload # [error |-> E_empty]
                   /\ h[i].payload # [error |-> E_toomany]

C4_Witness ==
    \E i \in Handlers :
        /\ ChatDone(i) /\ Len(Items(i)) = MaxMessages + 1
        /\ Items(i)[1] = NullMsg
        /\ Answered(i, 400, E_toomany)

\* a message with a non-empty role outside user, assistant, system
OddRole(m) == m.t = "object" /\ Truthy(m.role) /\ ~RoleAllowed(m.role)

\* C5, as claimed (on lists of message objects): a request of 1 to 50
\* messages that holds a message with a role outside the three is answered
\* 400 "Invalid message role", whatever that message's content and
\* position and the other messages.
C5_AsClaimed ==
    \A i \in Handlers :
        ( /\ ChatDone(i) /\ CountOk(i) /\ AllObjects(i)
          /\ \E k \in 1..Len(Items(i)) : OddRole(Items(i)[k]) )
        => Answered(i, 400, E_role)

\* C5, amended: a request of 1 to 50 messages is answered 400 "Invalid
\* message role" exactly when the first message that fails a check has a
\* non-empty role outside the three and a non-empty content, whatever the
\* type and length of that content and whatever follows; a message with
\* such a role and an empty content gets the format error, and an earlier
\* failing message decides instead.
C5_Role ==
    \A i \in Handlers :
        (ChatDone(i) /\ CountOk(i)) =>
            ( Answered(i, 400, E_role)
              <=> \E k \in 1..Len(Items(i)) :
                     /\ OddRole(Items(i)[k]) /\ Truthy(Items(i)[k].content)
                     /\ \A j \in 1..(k - 1) : Passes(Items(i)[j]) )

C5_Witness ==
    \E i \in Handlers :
        /\ ChatDone(i) /\ Len(Items(i)) = 2
        /\ Passes(Items(i)[1])
        /\ OddRole(Items(i)[2]) /\ Items(i)[2].content.t = "number"
        /\ Answered(i, 400, E_role)

\* a message whose content is a string of more than 10000 characters
OverLong(m) ==
    m.t = "object" /\ m.content.t = "string" /\ Len(m.content.s) > MaxContentLen

\* C6, as claimed (on lists of message objects): a request of 1 to 50
\* messages that holds a message with a content of more than 10000
\* characters is answered 400 "Message content too long", whatever that
\* message's role and the other messages.
C6_AsClaimed ==
    \A i \in Handlers :
        ( /\ ChatDone(i) /\ CountOk(i) /\ AllObjects(i)
          /\ \E k \in 1..Len(Items(i)) : OverLong(Items(i)[k]) )
        => Answered(i, 400, E_toolong)

\* C6, amended: a request of 1 to 50 messages is answered 400 "Message
\* content too long" exactly when the first message that fails a check
\* has an allowed role and a string content of more than 10000
\* characters; a content of exactly 10000 characters never is that
\* message.
C6_Length ==
    \A i \in Handlers :
        (ChatDone(i) /\ CountOk(i)) =>
            ( Answered(i, 400, E_toolong)
              <=> \E k \in 1..Len(Items(i)) :
                     /\ OverLong(Items(i)[k]) /\ RoleAllowed(Items(i)[k].role)
                     /\ \A j \in 1..(k - 1) : Passes(Items(i)[j]) )

C6_Witness ==
    \E i \in Handlers :
        /\ ChatDone(i) /\ Len(Items(i)) = 2
        /\ Passes(Items(i)[1])
        /\ Len(Items(i)[2].content.s) = MaxContentLen + 1
        /\ Answered(i, 400, E_toolong)

C6_WitnessAtBound ==
    \E i \in Handlers :
        /\ ChatDone(i) /\ Len(Items(i)) = 1
        /\ Len(Items(i)[1].content.s) = MaxContentLen
        /\ h[i].status = 200

----------------------------------------------------------------------------
(* Properties of the local fallback and of the error mapping *)

HasKeyword(m) == m.content.t = "string" /\ includes(m.content.s, K_restoran)

CodesOf(i) == {h[i].payload.content.codes[k] : k \in 1..Len(h[i].payload.content.codes)}

FoodFallback(i) ==
    /\ h[i].path = "fallback" /\ h[i].status = 200 /\ h[i].sent = 1
    /\ h[i].payload.fallback = TRUE
    /\ h[i].payload.content.fallback = TRUE
    /\ "56100" \in CodesOf(i)
    /\ h[i].calls = 0

\* C7, as claimed: with no credential, a validated request that holds the
\* keyword in any message, at any position and under any role, is answered
\* on a cache miss by the fallback with code 56100 and no provider call.
C7_AsClaimed ==
    \A i \in Handlers :
        ( /\ ~apiKey /\ ChatDone(i) /\ Accepted(i) /\ h[i].path # "hit"
          /\ \E k \in 1..Len(Items(i)) : HasKeyword(Items(i)[k]) )
        => FoodFallback(i)

\* C7, amended: with no credential, a validated request whose first
\* user-role message holds the keyword is answered on a cache miss by the
\* fallback: status 200, content with code 56100, fallback = true, no
\* provider call.  A keyword in another message does not decide.
C7_Fallback ==
    \A i \in Handlers :
        ( /\ ~apiKey /\ ChatDone(i) /\ Accepted(i) /\ h[i].path # "hit"
          /\ \E k \in 1..Len(Items(i)) :
                /\ Items(i)[k].role = Str(S_user) /\ HasKeyword(Items(i)[k])
                /\ \A j \in 1..(k - 1) : Items(i)[j].role # Str(S_user) )
        => FoodFallback(i)

C7_Witness ==
    \E i \in Handlers :
        /\ ~apiKey /\ ChatDone(i) /\ Len(Items(i)) = 2
        /\ Items(i)[1].role = Str(S_system) /\ ~HasKeyword(Items(i)[1])
        /\ Items(i)[2].role = Str(S_user) /\ HasKeyword(Items(i)[2])
        /\ FoodFallback(i)

\* the status the claim gives a propagated provider error
MappedStatus(error) ==
    CASE error.status = 429 -> 429
      [] error.status = 400 -> 400
      [] OTHER -> 500

\* the entries a lookup can still return at time t
Live(c, t) == [k \in {x \in DOMAIN c : ~Expired(c, x, t)} |-> c[k]]

\* C8: when the enhanced call and then the basic call fail, the status is
\* 429, 400 or 500 as the error of the second attempt is a rate-limit
\* error, a bad request or anything else, whatever the error of the first
\* attempt was; the failed request has written nothing to the cache: the
\* step that answers it leaves the cache as it was, and each of its
\* earlier steps (the lookup that missed, the failure of the enhanced
\* call) adds no key and leaves every entry that can still be returned.
C8_ErrorMapping ==
    [][ \A i \in Handlers :
          /\ (h[i].pc = "await_basic" /\ h'[i].pc = "done" /\ h'[i].path = "error") =>
                 /\ h'[i].status = MappedStatus(h'[i].err2)
                 /\ h'[i].payload = ErrorResponse(h'[i].err2).payload
                 /\ h'[i].sent = 1
                 /\ h'[i].calls = 2 /\ h'[i].sets = 0
                 /\ h'[i].err1 = h[i].err1
                 /\ cache' = cache
          /\ (h'[i] # h[i] /\ h'[i].pc \in {"await_enhanced", "await_basic"}) =>
                 /\ h'[i].sets = 0
                 /\ DOMAIN cache' \subseteq DOMAIN cache
                 /\ Live(cache', now') = Live(cache, now) ]_vars

\* the second attempt's error decides, and the lookup of the failed
\* request has dropped the expired entry of an earlier one
C8_Witness ==
    \E i \in Handlers :
        /\ ChatDone(i) /\ h[i].path = "error"
        /\ h[i].err1.status = 429 /\ h[i].err2.status = 400
        /\ h[i].status = 400
        /\ h[i].saw.by # 0 /\ ~h[i].saw.fresh
        /\ CacheKey(BodyOf(i)) \notin DOMAIN cache

----------------------------------------------------------------------------
(* Properties of every endpoint *)

\* C9: every handler that has ended has sent exactly one status code and
\* one JSON body, and a handler that has not ended has sent nothing.
C9_OneResponse ==
    \A i \in Handlers :
        /\ h[i].sent <= 1
        /\ h[i].pc = "done" <=> h[i].sent = 1
        /\ h[i].pc = "done" =>
               /\ h[i].status \in {200, 400, 404, 429, 500, 501}
               /\ h[i].payload # <<>>
               /\ h[i].req.endpoint \in {"chat", "statistics", "sections", "health", "unmatched"}

C9_Witness ==
    \E i \in Handlers, j \in Handlers :
        /\ h[i].path = "error" /\ h[i].sent = 1
        /\ h[j].path = "invalid" /\ h[j].req.endpoint = "chat" /\ h[j].sent = 1

SectionCodes == <<"A", "B", "C", "F", "G", "I", "J", "M">>

FixedList(payload) ==
    /\ DOMAIN payload = {"data", "cached"}
    /\ payload.cached = FALSE
    /\ Len(payload.data) = 8
    /\ \A k \in 1..8 : payload.data[k].code = SectionCodes[k]
    /\ payload = [data |-> sections, cached |-> FALSE]

\* C10: the sections endpoint always answers 200 with the same payload,
\* the fixed list of 8 entries A, B, C, F, G, I, J, M, whatever requests
\* ran before and whether or not its cache entry has expired; the entry
\* under its key is always that payload, and no chat handler stores
\* under that key.
C10_Sections ==
    /\ \A i \in Handlers :
          (h[i].pc = "done" /\ h[i].req.endpoint = "sections") =>
              h[i].status = 200 /\ FixedList(h[i].payload)
    /\ P_sections \in DOMAIN cache => FixedList(cache[P_sections].v)
    /\ P_sections \notin DOMAIN stored

C10_Witness ==
    \E i \in Handlers, j \in Handlers :
        /\ i < j
        /\ ChatDone(i) /\ h[i].status = 200 /\ h[i].sets = 1
        /\ CacheKey(BodyOf(i)) \in DOMAIN cache
        /\ h[j].pc = "done" /\ h[j].req.endpoint = "sections" /\ h[j].path = "fresh"

\* the entry has expired between two calls of the sections endpoint
C10_WitnessExpiry ==
    \E i \in Handlers, j \in Handlers :
        /\ i < j /\ now = 2 * TTL
        /\ h[i].pc = "done" /\ h[i].req.endpoint = "sections"
        /\ h[j].pc = "done" /\ h[j].req.endpoint = "sections" /\ h[j].path = "fresh"

----------------------------------------------------------------------------
(* Properties of the statistics endpoint *)

StatsDone(i) == h[i].pc = "done" /\ h[i].req.endpoint = "statistics"

\* a single letter A to U, or 1 to 5 decimal digits
LetterAU(code) == Len(code) = 1 /\ \E c \in 65..85 : code = <<c>>
Digits(code) == \A k \in 1..Len(code) : \E d \in 48..57 : code[k] = d
WellFormedCode(code) == LetterAU(code) \/ (Len(code) \in 1..5 /\ Digits(code))

HasPrefix(key, prefix) ==
    Len(key) >= Len(prefix) /\ SubSeq(key, 1, Len(prefix)) = prefix

\* C11: the statistics endpoint answers 400 to every code that is neither
\* a single letter A to U nor 1 to 5 digits and 501 to every code that
\* is; it never answers 200, no cache key starts with stats_, and the
\* step of the endpoint writes nothing to the cache.
C11_Statistics ==
    /\ \A i \in Handlers :
          StatsDone(i) =>
              /\ h[i].sent = 1 /\ h[i].sets = 0 /\ h[i].calls = 0
              /\ IF WellFormedCode(h[i].req.okedCode)
                 THEN h[i].status = 501 /\ h[i].payload = [error |-> E_stub]
                 ELSE Answered(i, 400, "Invalid OKED code format")
    /\ \A key \in DOMAIN cache : ~HasPrefix(key, P_stats)

C11_Witness ==
    \E i \in Handlers, j \in Handlers :
        /\ i < j
        /\ ChatDone(i) /\ h[i].status = 200 /\ P_sections \notin DOMAIN cache
        /\ CacheKey(BodyOf(i)) \in DOMAIN cache
        /\ StatsDone(j) /\ h[j].req.okedCode = <<49, 50, 51, 52, 53>>
        /\ h[j].status = 501

C11_WitnessRejected ==
    \E i \in Handlers :
        StatsDone(i) /\ h[i].req.okedCode = <<49, 50, 51, 52, 53, 54>> /\ h[i].status = 400

----------------------------------------------------------------------------
(* Properties of the dispatcher *)

\* handler i sends its response in this step
Answers(i) == h[i].pc # "done" /\ h'[i].pc = "done"

\* the content of the first user-role message of the request
FirstUserText(i) ==
    LET k == Least({j \in 1..Len(Items(i)) : Items(i)[j].role = Str(S_user)})
    IN Items(i)[k].content.s

\* C12: with the provider configured and a cache miss, the 200 response
\* carries enhanced = true, queryType claude_intelligence and the content
\* of the first user-role message as originalQuery exactly when the step
\* that answers is the success of the enhanced call, and enhanced = false
\* and queryType fallback exactly when it is the success of the basic
\* call, issued after the enhanced attempt failed; in the state in which
\* the response is sent the cache holds that result under the request's
\* key with a full TTL.
C12_Tagging ==
    [][ \A i \in Handlers :
          ( /\ Answers(i) /\ h'[i].req.endpoint = "chat"
            /\ h'[i].status = 200 /\ apiKey /\ h'[i].path # "hit" )
          => LET p == h'[i].payload
                 key == CacheKey(h'[i].req.body)
             IN /\ h[i].pc \in {"await_enhanced", "await_basic"}
                /\ p.enhanced <=> h[i].pc = "await_enhanced"
                /\ p.enhanced <=> h'[i].calls = 1
                /\ ~p.enhanced <=> (h'[i].calls = 2 /\ h[i].err1 # NoError)
                /\ IF p.enhanced
                   THEN /\ DOMAIN p = {"content", "usage", "enhanced", "queryType", "originalQuery"}
                        /\ p.queryType = "claude_intelligence"
                        /\ p.originalQuery = FirstUserText(i)'
                   ELSE /\ DOMAIN p = {"content", "usage", "enhanced", "queryType"}
                        /\ p.queryType = "fallback"
                /\ p.content \in Texts
                /\ key \in DOMAIN cache'
                /\ cache'[key] = [v |-> p, t |-> now + TTL] ]_vars

C12_Witness ==
    \E i \in Handlers :
        /\ ChatDone(i) /\ h[i].path = "enhanced" /\ Len(Items(i)) = 2
        /\ Items(i)[1].role = Str(S_system) /\ Items(i)[2].role = Str(S_user)
        /\ Items(i)[1].content # Items(i)[2].content
        /\ h[i].payload.originalQuery = Items(i)[2].content.s
        /\ CacheKey(BodyOf(i)) \in DOMAIN cache

C12_WitnessBasic ==
    \E i \in Handlers :
        /\ ChatDone(i) /\ h[i].path = "basic" /\ h[i].calls = 2
        /\ h[i].payload.enhanced = FALSE
        /\ cache[CacheKey(BodyOf(i))].v = h[i].payload


\* the synthetic prompt built around a query
PromptAround(q) ==
    <<85, 83, 69, 82, 32, 81, 85, 69, 82, 89, 58, 32, 34>> \o q
        \o <<34, 10, 10, 73, 78, 83, 84, 82, 85, 67, 84, 73, 79, 78, 83, 58>>

Suspended(i) == h[i].pc \in {"await_enhanced", "await_basic"}

\* C13: a chat request invokes the provider at most twice, one call at a
\* time; the first call carries one synthetic user message built around
\* the content of the first user-role message; the second call is issued
\* by the step in which the first one fails, carries the original message
\* list and the same model, and is never issued after a first success;
\* once the second call has failed, or any response is sent, the request
\* makes no further call.
C13_Attempts ==
    [][ \A i \in Handlers :
          /\ h'[i].calls \in {h[i].calls, h[i].calls + 1}
          /\ h'[i].calls <= 2 /\ Len(h'[i].inv) = h'[i].calls
          /\ h'[i].calls > h[i].calls => Suspended(i)' /\ h'[i].pc # h[i].pc
          /\ (h[i].calls = 0 /\ h'[i].calls = 1) =>
                /\ h[i].pc = "idle" /\ h'[i].pc = "await_enhanced"
                /\ Accepted(i)'
                /\ Len(h'[i].inv[1].messages) = 1
                /\ h'[i].inv[1].messages[1] =
                       Msg(Str(S_user), Str(PromptAround(FirstUserText(i)')))
                /\ h'[i].inv[1].model \in allowedModels
          /\ (h[i].calls = 1 /\ h'[i].calls = 2) =>
                /\ h[i].pc = "await_enhanced" /\ h'[i].pc = "await_basic"
                /\ h'[i].err1 # NoError /\ h'[i].sent = 0
                /\ h'[i].inv[1] = h[i].inv[1]
                /\ h'[i].inv[2].messages = Items(i)
                /\ h'[i].inv[2].model = h[i].inv[1].model
          /\ (h[i].pc = "await_enhanced" /\ h'[i].pc = "done") =>
                h'[i].calls = 1 /\ h'[i].status = 200
          /\ h[i].pc = "done" => h'[i] = h[i] ]_vars

C13_Witness ==
    \E i \in Handlers :
        /\ ChatDone(i) /\ h[i].path = "error" /\ Len(h[i].inv) = 2
        /\ Len(Items(i)) = 2 /\ Items(i)[1].role = Str(S_system)
        /\ Len(h[i].inv[1].messages) = 1
        /\ h[i].inv[2].messages = Items(i)
        /\ h[i].inv[2].model = "claude-3-opus-20240229"

----------------------------------------------------------------------------
(* Properties of the cache and of its keys *)

ChatSeen(i) == h[i].req.endpoint = "chat" /\ h[i].pc # "idle" /\ Accepted(i)

\* C14: two validated requests have the same cache key exactly when
\* their message lists are the same, whatever their models; a request
\* that arrives while the last result stored by an earlier request with
\* the same messages and another allowed model is within its TTL is
\* answered with that request's payload, and the provider is never
\* invoked with the model it asked for; a request answered from the
\* cache has the messages of the request that stored the entry.
C14_KeyWithoutModel ==
    /\ \A j \in Handlers :
          (ChatSeen(j) /\ h[j].path = "hit") =>
              /\ h[j].saw.by \in 1..(j - 1)
              /\ Items(h[j].saw.by) = Items(j)
    /\ \A i \in Handlers, j \in Handlers :
        (ChatSeen(i) /\ ChatSeen(j) /\ i < j) =>
            /\ CacheKey(BodyOf(i)) = CacheKey(BodyOf(j)) <=> Items(i) = Items(j)
            /\ ( /\ Items(i) = Items(j)
                 /\ ModelOf(BodyOf(i)) # ModelOf(BodyOf(j))
                 /\ h[j].saw.by = i /\ h[j].saw.fresh )
               => /\ h[j].path = "hit" /\ h[j].status = 200
                  /\ h[j].payload = h[i].payload
                  /\ h[j].inv = <<>>
                  /\ \A k \in 1..Len(h[i].inv) :
                        h[i].inv[k].model # ModelOf(BodyOf(j))

C14_Witness ==
    \E i \in Handlers, j \in Handlers :
        /\ ChatDone(i) /\ h[i].path = "enhanced"
        /\ ChatDone(j) /\ h[j].path = "hit" /\ h[j].saw.by = i
        /\ ModelOf(BodyOf(i)) = "claude-3-haiku-20240307"
        /\ ModelOf(BodyOf(j)) = DefaultModel
        /\ h[j].payload = h[i].payload

\* a content holding JSON syntax and the two-message list it imitates
\* were both stored, under two keys
C14_WitnessEscape ==
    \E i \in Handlers, j \in Handlers :
        /\ ChatDone(i) /\ Len(Items(i)) = 2 /\ h[i].sets = 1
        /\ ChatDone(j) /\ Len(Items(j)) = 1 /\ Items(j)[1].content.s = T_xy
        /\ h[j].sets = 1
        /\ Cardinality(DOMAIN cache) = 2


\* the key a chat or sections handler looks up
KeyOf(r) ==
    IF r.req.endpoint = "chat" THEN CacheKey(r.req.body) ELSE P_sections

\* the keys a step stores or stores again
Written == {k \in DOMAIN cache' : k \notin DOMAIN cache \/ cache'[k] # cache[k]}

\* handler i arrives in this step and reaches its cache lookup
LooksUp(i) ==
    /\ h[i].pc = "idle" /\ h'[i].pc # "idle"
    /\ h'[i].req.endpoint \in {"chat", "sections"}
    /\ h'[i].req.endpoint = "chat" => Accepted(i)'

\* handler j has arrived after the entry of an earlier request expired
Returned(j) == ChatSeen(j) /\ h[j].saw.by # 0 /\ ~h[j].saw.fresh

\* C15, as claimed in its last part: a chat request that arrives after
\* its entry has expired goes through the dispatcher again and, once
\* answered, has overwritten the entry.
C15_AsClaimed ==
    \A j \in Handlers :
        (Returned(j) /\ h[j].pc = "done") =>
            h[j].path # "hit" /\ h[j].sets = 1

\* C15, amended: an entry stored at time t carries the expiry time
\* t + 3600; a lookup of its key returns its value exactly when the
\* clock has not passed that time, so at every moment before t + 3600,
\* and finds it absent at every moment after, unless the key was set
\* again, which gives it the expiry time of that moment plus 3600.  An
\* entry leaves the cache only when its TTL has passed; a step stores at
\* most one key and changes no entry that has not expired but the one it
\* stores.  A chat request arriving after its entry has expired is not
\* answered from the cache and goes through the dispatcher again: it
\* stores a new entry with a new TTL exactly when it is answered 200,
\* and stores nothing when both provider calls fail.
C15_Expiry ==
    [][ /\ \A k \in DOMAIN cache :
              \/ k \in DOMAIN cache' /\ cache'[k] = cache[k]
              \/ k \in DOMAIN cache' /\ cache'[k].t = now + TTL
              \/ k \notin DOMAIN cache' /\ cache[k].t < now
        /\ \A k \in Written : cache'[k].t = now + TTL
        /\ Cardinality(Written) <= 1
        /\ \A i \in Handlers :
              /\ LooksUp(i) =>
                    LET key == KeyOf(h'[i])
                    IN /\ h'[i].path = "hit" <=>
                             (key \in DOMAIN cache /\ now <= cache[key].t)
                       /\ h'[i].path = "hit" =>
                             /\ h'[i].payload = cache[key].v
                             /\ cache'[key] = cache[key]
                       /\ h'[i].path # "hit" =>
                             Written = (IF h'[i].pc = "done" THEN {key} ELSE {})
              /\ (Answers(i) /\ Returned(i)') =>
                    LET key == KeyOf(h'[i])
                    IN /\ h'[i].path \in {"fallback", "enhanced", "basic", "error"}
                       /\ h'[i].status = 200 <=> h'[i].sets = 1
                       /\ h'[i].status = 200 <=> h'[i].path # "error"
                       /\ IF h'[i].status = 200
                          THEN /\ Written \subseteq {key}
                               /\ cache'[key] = [v |-> h'[i].payload, t |-> now + TTL]
                          ELSE cache' = cache /\ h'[i].sets = 0 ]_vars

\* the second request found the entry of the first one a second after
\* its TTL had passed and has stored a new one
C15_Witness ==
    \E i \in Handlers, j \in Handlers :
        /\ ChatDone(i) /\ ChatDone(j) /\ Returned(j) /\ h[j].saw.by = i
        /\ h[j].sets = 1
        /\ KeyOf(h[j]) \in DOMAIN cache
        /\ cache[KeyOf(h[j])].t = 2 * TTL + 1
        /\ now = TTL + 1

\* a request was answered from the cache, and the entry is held at the
\* last moment of its TTL
C15_WitnessHeld ==
    \E i \in Handlers, j \in Handlers :
        /\ ChatDone(i) /\ ChatDone(j) /\ h[j].path = "hit" /\ h[j].saw.by = i
        /\ KeyOf(h[j]) \in DOMAIN cache
        /\ cache[KeyOf(h[j])].t = TTL + 1
        /\ now = TTL + 1

----------------------------------------------------------------------------
(* Properties of the fallback generator *)

FoodWords == {K_restoran, K_kafe, K_pitanie, K_restaurant}
RetailWords == {K_magazin, K_torgovlya, K_prodazha}
SoftwareWords == {K_programmirovanie, K_soft, K_it}

HasWord(text, words) == \E w \in words : includes(toLowerCase(text), w)

\* the answer the priority list gives a text: category, codes, number
\* of suggestions
PriorityAnswer(text) ==
    IF HasWord(text, FoodWords) THEN <<"food", <<"56100">>, 2>>
    ELSE IF HasWord(text, RetailWords) THEN <<"retail", <<"47111">>, 2>>
    ELSE IF HasWord(text, SoftwareWords) THEN <<"software", <<"62010">>, 3>>
    ELSE <<"offline", <<>>, 3>>

\* C16: the fallback result is decided by the lower-cased text of the
\* first user-role message: the food answer (56100) when it holds a food
\* keyword, else the retail answer (47111) when it holds a retail
\* keyword, else the software answer (62010) when it holds a software
\* keyword, else the offline answer with no codes; the result is a
\* function of that text alone and always has fallback = true and
\* enhanced = false.
C16_Priority ==
    \A i \in Handlers :
        (ChatDone(i) /\ h[i].path = "fallback") =>
            LET text == FirstUserText(i)
                a == PriorityAnswer(text)
            IN /\ ~apiKey /\ Accepted(i) /\ h[i].status = 200
               /\ h[i].payload =
                     [content |-> [response |-> <<a[1], text>>,
                                   codes |-> a[2],
                                   suggestions |-> a[3],
                                   confidence |-> "low",
                                   fallback |-> TRUE],
                      fallback |-> TRUE,
                      enhanced |-> FALSE]

\* a text with a software and a retail keyword gets the retail answer
C16_Witness ==
    \E i \in Handlers :
        /\ ChatDone(i) /\ h[i].path = "fallback"
        /\ HasWord(FirstUserText(i), SoftwareWords)
        /\ HasWord(FirstUserText(i), RetailWords)
        /\ h[i].payload.content.codes = <<"47111">>

\* a retail keyword in front of a food keyword: the food answer
C16_WitnessFood ==
    \E i \in Handlers :
        /\ ChatDone(i) /\ h[i].path = "fallback"
        /\ FirstUserText(i) = K_magazin \o <<32>> \o K_kafe
        /\ h[i].payload.content.codes = <<"56100">>

\* a keyword in capitals is found
C16_WitnessCase ==
    \E i \in Handlers :
        /\ ChatDone(i) /\ h[i].path = "fallback" /\ FirstUserText(i) = T_RESTORAN
        /\ h[i].payload.content.codes = <<"56100">>

----------------------------------------------------------------------------
(* Liveness *)

\* the next request to arrive can be handled, whatever its endpoint
CanArrive(i) ==
    /\ ENABLED (\E body \in SameBodies : ChatRequest(i, body))
    /\ ENABLED (\E okedCode \in Codes : Statistics(i, okedCode))
    /\ ENABLED Sections(i)
    /\ ENABLED Health(i)

NonBlocking ==
    \A i \in Handlers, j \in Handlers :
        (Suspended(i) /\ Arrives(j)) => CanArrive(j)

\* a request to the statistics, sections or health endpoint is answered
\* in the step in which it arrives
Synchronous ==
    \A j \in Handlers :
        (h[j].pc = "idle" /\ h'[j].pc # "idle" /\ h'[j].req.endpoint # "chat")
            => h'[j].pc = "done" /\ h'[j].sent = 1

\* C17: while a chat request is suspended on a provider call, the next
\* request of any endpoint can be handled, and a statistics, sections or
\* health request is answered in its own step; when every provider call
\* is eventually settled, every suspended request eventually sends its
\* response.
C17_Liveness ==
    /\ []NonBlocking
    /\ [][Synchronous]_vars
    /\ \A i \in Handlers : Suspended(i) ~> (h[i].pc = "done" /\ h[i].sent = 1)

\* a sections request was answered while an earlier chat request is
\* suspended on its second provider call
C17_Witness ==
    \E i \in Handlers, j \in Handlers :
        /\ i < j
        /\ h[i].pc = "await_basic"
        /\ h[j].pc = "done" /\ h[j].req.endpoint = "sections"

----------------------------------------------------------------------------
(* Properties of the health endpoint *)

\* handler i arrives in this step as a health request
HealthStep(i) == h[i].pc = "idle" /\ h'[i].req.endpoint = "health"

\* C18: the step of GET /health leaves the cache as it was, entries,
\* values and expiry times, and answers 200 with cache_keys equal to the
\* number of entries the cache holds at that moment (expired entries not
\* yet removed included) and anthropic_configured telling whether the
\* credential is set.
C18_HealthFrame ==
    [][ \A i \in Handlers :
          HealthStep(i) =>
              /\ cache' = cache
              /\ h'[i].pc = "done" /\ h'[i].status = 200 /\ h'[i].sent = 1
              /\ h'[i].sets = 0 /\ h'[i].calls = 0
              /\ h'[i].payload.cache_keys = Cardinality(DOMAIN cache)
              /\ h'[i].payload.anthropic_configured = apiKey
              /\ h'[i].payload.status = "OK" ]_vars

\* a health request has reported the sections entry
C18_Witness ==
    \E i \in Handlers, j \in Handlers :
        /\ i < j
        /\ h[i].pc = "done" /\ h[i].req.endpoint = "sections"
        /\ h[j].pc = "done" /\ h[j].req.endpoint = "health"
        /\ h[j].payload.cache_keys = 1
        /\ P_sections \in DOMAIN cache /\ cache[P_sections].t < now

----------------------------------------------------------------------------
(* Properties of the user-message check *)

\* the request satisfies conditions 1 to 7
WellFormed(i) ==
    /\ CountOk(i)
    /\ \A k \in 1..Len(Items(i)) : Passes(Items(i)[k])
    /\ ModelAllowed(BodyOf(i))

HasUser(i) == \E k \in 1..Len(Items(i)) : Items(i)[k].role = Str(S_user)

\* C19: a request that satisfies conditions 1 to 7 and has no user-role
\* message is answered 400 "No user message found", with or without the
\* credential, and has made no provider call and no cache write; that
\* error is given to no other request; and every request that went past
\* the checks (answered from the cache, by the fallback or after a
\* provider call, or suspended on one) has a user-role message.
C19_NoUser ==
    \A i \in Handlers :
        (h[i].req.endpoint = "chat" /\ h[i].pc # "idle") =>
            /\ (WellFormed(i) /\ ~HasUser(i)) =>
                  /\ h[i].pc = "done" /\ Answered(i, 400, E_nouser)
                  /\ h[i].calls = 0 /\ h[i].inv = <<>> /\ h[i].sets = 0
                  /\ h[i].saw.by = 0
                  /\ CacheKey(BodyOf(i)) \notin DOMAIN cache
            /\ (h[i].pc = "done" /\ h[i].payload = [error |-> E_nouser]) =>
                  WellFormed(i) /\ ~HasUser(i) /\ h[i].status = 400
            /\ (Suspended(i) \/ h[i].path \in {"hit", "fallback", "enhanced", "basic", "error"}) =>
                  WellFormed(i) /\ HasUser(i)

\* without the credential, a request whose system message holds a
\* fallback keyword and that has no user message
C19_Witness ==
    \E i \in Handlers :
        /\ ~apiKey /\ ChatDone(i) /\ Len(Items(i)) = 2
        /\ Items(i)[1].role = Str(S_assistant)
        /\ Items(i)[2] = Msg(Str(S_system), Str(K_restoran))
        /\ ModelOf(BodyOf(i)) = "claude-3-opus-20240229"
        /\ Answered(i, 400, E_nouser)

----------------------------------------------------------------------------
(* Properties of the cache under concurrent chat requests *)

\* chat handler i sends a 200 response in this step
Replies200(i) ==
    /\ Answers(i) /\ h'[i].req.endpoint = "chat" /\ h'[i].status = 200

\* C20: in the step in which a chat request is answered 200, the cache
\* holds the payload of the response, unexpired, under the key of the
\* request: a hit leaves the entry as it was, every other 200 path stores
\* its result in that step over whatever was held (the last writer wins)
\* with a fresh TTL; a step stores into the cache only when a handler
\* answers 200 on a storing path, and only under that handler's key;
\* every chat entry is the whole payload of the last request that stored
\* under its key.
C20_CacheAgreement ==
    [][ /\ \A i \in Handlers :
              Replies200(i) =>
                  LET key == CacheKey(h'[i].req.body) IN
                  /\ key \in DOMAIN cache'
                  /\ cache'[key].v = h'[i].payload
                  /\ ~Expired(cache', key, now')
                  /\ IF h'[i].path = "hit"
                     THEN /\ h'[i].sets = 0 /\ Written = {}
                          /\ key \in DOMAIN cache /\ cache'[key] = cache[key]
                     ELSE /\ h'[i].path \in {"fallback", "enhanced", "basic"}
                          /\ h'[i].sets = 1 /\ Written \subseteq {key}
                          /\ cache'[key] = [v |-> h'[i].payload, t |-> now + TTL]
                          /\ stored'[key].by = i
        /\ Written # {} =>
              \E i \in Handlers :
                  /\ Answers(i) /\ h'[i].status = 200 /\ h'[i].sets = 1
                  /\ h'[i].path \in {"fallback", "enhanced", "basic", "fresh"}
                  /\ Written = {KeyOf(h'[i])}
        /\ \A k \in DOMAIN cache' :
              k # P_sections =>
                  /\ k \in DOMAIN stored'
                  /\ LET j == stored'[k].by IN
                     /\ h'[j].pc = "done" /\ h'[j].req.endpoint = "chat"
                     /\ h'[j].status = 200 /\ h'[j].sets = 1
                     /\ CacheKey(h'[j].req.body) = k
                     /\ cache'[k].v = h'[j].payload
      ]_vars

\* two overlapping requests with the same messages both missed, both
\* called the provider, and were answered with different payloads; the
\* cache holds the one stored last
C20_Witness ==
    \E i \in Handlers, j \in Handlers :
        /\ i # j /\ now = 0 /\ ChatDone(i) /\ ChatDone(j)
        /\ CacheKey(BodyOf(i)) = CacheKey(BodyOf(j))
        /\ h[i].path = "enhanced" /\ h[j].path \in {"enhanced", "basic"}
        /\ h[i].calls = 1 /\ h[j].calls >= 1
        /\ h[i].status = 200 /\ h[j].status = 200
        /\ h[i].payload.content # h[j].payload.content
        /\ stored[CacheKey(BodyOf(i))].by = j
        /\ cache[CacheKey(BodyOf(i))].v = h[j].payload
        /\ cache[CacheKey(BodyOf(i))].v # h[i].payload

\* a request answered from the cache holds the payload a provider call of
\* an earlier request produced
C20_WitnessHit ==
    \E i \in Handlers, j \in Handlers :
        /\ i < j /\ ChatDone(i) /\ ChatDone(j)
        /\ h[i].path = "basic" /\ h[j].path = "hit" /\ h[j].calls = 0
        /\ h[j].payload = h[i].payload
        /\ CacheKey(BodyOf(j)) \in DOMAIN cache
        /\ cache[CacheKey(BodyOf(j))].v = h[j].payload

====
